---- MODULE Spec2Model ----
(***************************************************************************)
(* pingg: a terminal chart of ICMP round-trip latency, fed by the text     *)
(* output of a `ping` subprocess (src/src/main.rs).                        *)
(*                                                                         *)
(* The model covers the main loop (draw, key, tick), App::update with its  *)
(* batch of at most five PingRunner::next calls, the line parser inside    *)
(* PingRunner::next, the two gap-filled series and the viewport bounds,    *)
(* and the subprocess writing lines to the pipe the program reads.         *)
(*                                                                         *)
(* Number representation: every f64 of the program is modelled as an       *)
(* integer count of tenths (12.3 is 123, -1.0 is -10); usize values are    *)
(* plain naturals.  AsF64 is the `as f64` conversion between the two.      *)
(* F64Inf stands for +infinity, which parse::<f64> reads from "inf".       *)
(*                                                                         *)
(* Spec is a session of the program; SpecParse applies the line parser     *)
(* alone to every short line over a small set of tokens.                   *)
(***************************************************************************)
EXTENDS Integers, Sequences, FiniteSets, TLC

(***************************************************************************)
(* Bounds of the model.                                                    *)
(***************************************************************************)
\* a run in which the subprocess may write any line is followed for this
\* many lines
MaxLines == 3
\* a run in which the subprocess writes probe reports only is followed for
\* this many lines (a full batch of App::update takes five, and one line more
\* shows whether the batch ends there)
MaxReports == 6
\* the pipe holds at most this many unread lines; a writer blocks on a full pipe
MaxPipe == 2
\* the parser alone is fed every line of at most this many tokens
MaxToks == 3
\* number of elements a Vec can hold before the allocator gives up; it only
\* matters for the release-build outcome of the wrapped gap-fill span
AllocLimit == 104

(***************************************************************************)
(* Program constants.                                                      *)
(***************************************************************************)
\* `.take(5)` in App::update
BatchSize == 5

\* `n as f64`, in tenths
AsF64(n) == n * 10

\* the sentinel latency -1.0 pushed by the gap-fill loops
Sentinel == AsF64(-1)

\* max_latency: 10.0 and max_seqnum: 100.0 in App::new
InitMaxLatency == AsF64(10)
InitMaxSeqnum == AsF64(100)

\* the `+ 5.0` added when a bound is passed
Headroom == AsF64(5)

\* f64 +infinity: above every finite value of the model, and what any sum
\* with it gives
F64Inf == AsF64(100000)

\* f64 addition
AddF64(a, b) == IF a = F64Inf \/ b = F64Inf THEN F64Inf ELSE a + b

(***************************************************************************)
(* Lines of the subprocess's output.  A line is a record                   *)
(*   [utf8 |-> BOOLEAN, toks |-> sequence of tokens]                       *)
(* holding its whitespace-delimited tokens (the line terminator is         *)
(* implicit, lines carry no leading whitespace).  A token is               *)
(*   [pre |-> "" | "icmp_seq=" | "time=", k |-> kind, v |-> Int, w |-> ..] *)
(* whose text is pre followed by a body of kind                            *)
(*   "int"  : decimal digits, value v          (e.g. 7)                    *)
(*   "dec"  : digits '.' digit, v in tenths    (e.g. 12.3 is v = 123)      *)
(*   "word" : the letters w                    (e.g. Request, ms, abc)     *)
(*   "dash" : a run of '-'                     (e.g. ---)                  *)
(*   "inf"  : the letters inf, which parse::<f64> reads as +infinity       *)
(***************************************************************************)
Word(w) == [pre |-> "", k |-> "word", v |-> 0, w |-> w]
Num(n) == [pre |-> "", k |-> "int", v |-> n, w |-> ""]
Dec(t) == [pre |-> "", k |-> "dec", v |-> t, w |-> ""]
Dashes == [pre |-> "", k |-> "dash", v |-> 0, w |-> ""]
Inf == [pre |-> "", k |-> "inf", v |-> 0, w |-> ""]
WithPrefix(p, body) == [body EXCEPT !.pre = p]

Line(toks) == [utf8 |-> TRUE, toks |-> toks]

\* "64 bytes from 1.1.1.1: icmp_seq=4 ttl=56 time=12.3 ms", shortened
Reply(s, t) ==
    Line(<<Word("bytes"), WithPrefix("icmp_seq=", Num(s)), WithPrefix("time=", Dec(t)), Word("ms")>>)
\* the same report with the two tokens in the other order
ReplySwapped(s, t) ==
    Line(<<WithPrefix("time=", Dec(t)), WithPrefix("icmp_seq=", Num(s))>>)
\* "Request timeout for icmp_seq 7"
Timeout(s) == Line(<<Word("Request"), Word("timeout"), Word("icmp_seq"), Num(s)>>)
\* "PING 1.1.1.1 (1.1.1.1): 56 data bytes"
HeaderLine == Line(<<Word("PING"), Num(56), Word("bytes")>>)
\* the empty line the tool prints before its statistics block: "\n"
BlankLine == Line(<<>>)
\* "--- 1.1.1.1 ping statistics ---"
StatsLine == Line(<<Dashes, Word("statistics"), Dashes>>)
\* a report whose latency reads "inf"
InfReply(s) == Line(<<Word("bytes"), WithPrefix("icmp_seq=", Num(s)), WithPrefix("time=", Inf)>>)
\* reports whose numeric fields are not numeric
BadSeqLine == Line(<<Word("bytes"), WithPrefix("icmp_seq=", Word("abc")), WithPrefix("time=", Dec(25))>>)
BadTimeLine == Line(<<Word("bytes"), WithPrefix("icmp_seq=", Num(1)), WithPrefix("time=", Word("abc"))>>)
BadRequestLine == Line(<<Word("Request"), Word("timeout")>>)
\* bytes that are not valid UTF-8
GarbledLine == [utf8 |-> FALSE, toks |-> <<Word("bytes")>>]

\* placeholder of the history variable `cur` before any line was read
NoLine == [utf8 |-> TRUE, toks |-> <<Word("")>>]

(***************************************************************************)
(* The line parser of PingRunner::next.                                    *)
(***************************************************************************)
\* str::starts_with on a token
StartsWith(tok, p) == tok.pre = p

\* part[prefix.len()..]: the token without its prefix
StripPrefix(tok) == [tok EXCEPT !.pre = ""]

\* str::parse::<usize>: digits only
ParseUsize(tok) == [ok |-> tok.pre = "" /\ tok.k = "int", v |-> tok.v]

\* str::parse::<f64>: digits, digits with a fraction, or "inf"; the result in
\* tenths
ParseF64(tok) ==
    [ok |-> tok.pre = "" /\ tok.k \in {"int", "dec", "inf"},
     v  |-> IF tok.k = "int" THEN AsF64(tok.v)
            ELSE IF tok.k = "inf" THEN F64Inf ELSE tok.v]

\* line.starts_with('-')
StartsWithDash(line) ==
    /\ Len(line.toks) > 0
    /\ line.toks[1].pre = ""
    /\ line.toks[1].k = "dash"

\* parts.first().unwrap() == &"Request"
FirstIsRequest(parts) == parts[1] = Word("Request")

\* a scan that stops at the first token it recognises
RECURSIVE ScanPartsFirstOnly(_, _, _)
ScanPartsFirstOnly(parts, i, acc) ==
    IF i > Len(parts) THEN acc
    ELSE LET part == parts[i] IN
         IF StartsWith(part, "icmp_seq=")
         THEN LET r == ParseUsize(StripPrefix(part)) IN
              IF r.ok THEN [acc EXCEPT !.seq = r.v] ELSE [acc EXCEPT !.ok = FALSE]
         ELSE IF StartsWith(part, "time=")
         THEN LET r == ParseF64(StripPrefix(part)) IN
              IF r.ok THEN [acc EXCEPT !.time = r.v] ELSE [acc EXCEPT !.ok = FALSE]
         ELSE ScanPartsFirstOnly(parts, i + 1, acc)

\* the `for part in parts` scan, from part i on, with seq/time found so far;
\* ok turns FALSE where an unwrap() of a failed parse panics
RECURSIVE ScanParts(_, _, _)
ScanParts(parts, i, acc) ==
    IF i > Len(parts) \/ ~acc.ok THEN acc
    ELSE LET part == parts[i] IN
         IF StartsWith(part, "icmp_seq=")
         THEN LET r == ParseUsize(StripPrefix(part)) IN
              ScanParts(parts, i + 1, IF r.ok THEN [acc EXCEPT !.seq = r.v]
                                               ELSE [acc EXCEPT !.ok = FALSE])
         ELSE IF StartsWith(part, "time=")
         THEN LET r == ParseF64(StripPrefix(part)) IN
              ScanParts(parts, i + 1, IF r.ok THEN [acc EXCEPT !.time = r.v]
                                               ELSE [acc EXCEPT !.ok = FALSE])
         ELSE ScanParts(parts, i + 1, acc)

\* a latency that starts out as the sentinel
DefaultTimeSentinel == Sentinel

\* `let mut seq = 0usize; let mut time = 0.0f64;`
DefaultSeq == 0
DefaultTime == AsF64(0)

\* What PingRunner::next makes of the line read_line returned:
\*   ReadError   read_line failed (the bytes are not UTF-8): None, done untouched
\*   EndOfStream the line starts with '-': done = true, None
\*   Panic       an unwrap() failed; fault names the place
\*   Dropped / Received   Some(packet)
Outcome(tag, seq, time, fault) == [tag |-> tag, seq |-> seq, time |-> time, fault |-> fault]

ParseLine(line) ==
    IF ~line.utf8 THEN Outcome("ReadError", 0, 0, "none")
    ELSE IF StartsWithDash(line) THEN Outcome("EndOfStream", 0, 0, "none")
    ELSE IF Len(line.toks) = 0 THEN Outcome("Panic", 0, 0, "first_unwrap")
    ELSE IF FirstIsRequest(line.toks)
    THEN LET r == ParseUsize(line.toks[Len(line.toks)]) IN
         IF r.ok THEN Outcome("Dropped", r.v, DefaultTime, "none")
                 ELSE Outcome("Panic", 0, 0, "parse_unwrap")
    ELSE LET acc == ScanParts(line.toks, 1, [seq |-> DefaultSeq, time |-> DefaultTime, ok |-> TRUE]) IN
         IF acc.ok THEN Outcome("Received", acc.seq, acc.time, "none")
                   ELSE Outcome("Panic", 0, 0, "parse_unwrap")

(***************************************************************************)
(* The series store and the viewport of App::update.                       *)
(***************************************************************************)
\* a bound that follows the latest value instead of growing
ObserveBoundAlways(bound, v) == AddF64(v, Headroom)

\* a bound that moves to the value itself, without headroom
ObserveBoundExact(bound, v) == IF v >= bound THEN v ELSE bound

\* `if v >= bound { bound = v + 5.0 }`
ObserveBound(bound, v) == IF v >= bound THEN AddF64(v, Headroom) ELSE bound

\* `for i in 0..=d { series.push(((series.len() + i) as f64, -1.0)) }`, from
\* iteration i on; the range is fixed when the loop starts, series.len() is
\* read anew in every iteration; the loop ends early where the allocation fails
RECURSIVE GapFillFrom(_, _, _)
GapFillFrom(series, i, d) ==
    IF i > d \/ Len(series) >= AllocLimit THEN series
    ELSE GapFillFrom(Append(series, <<AsF64(Len(series) + i), Sentinel>>), i + 1, d)

\* a gap-fill loop that runs once too often
GapFillOneMore(series, d) == GapFillFrom(series, 0, d + 1)

GapFill(series, d) == GapFillFrom(series, 0, d)

\* an assignment that lands one position early
SetLatencyBefore(series, s, t) ==
    IF s = 0 THEN series ELSE [series EXCEPT ![s] = <<series[s][1], t>>]

\* `series[sequence_num].1 = time`
SetLatency(series, s, t) == [series EXCEPT ![s + 1] = <<series[s + 1][1], t>>]

(***************************************************************************)
(* The lines the subprocess may write, by name: the pipe and the history   *)
(* variables hold the names, Text gives the line a name stands for.        *)
(***************************************************************************)
Text ==
    [reply0     |-> Reply(0, 25),
     reply1     |-> Reply(1, 123),
     swapped3   |-> ReplySwapped(3, 25),
     reply100   |-> Reply(100, 25),
     timeout1   |-> Timeout(1),
     replyinf   |-> InfReply(2),
     header     |-> HeaderLine,
     blank      |-> BlankLine,
     stats      |-> StatsLine,
     badseq     |-> BadSeqLine,
     badtime    |-> BadTimeLine,
     badrequest |-> BadRequestLine,
     garbled    |-> GarbledLine,
     none       |-> NoLine]

\* the probe reports among them
Reports == {"reply0", "reply1", "swapped3", "reply100", "timeout1"}

Lines == DOMAIN Text \ {"none"}

\* what a run's subprocess may write: any line, or probe reports only
Menu(m) == IF m = "reports" THEN Reports ELSE Lines

(***************************************************************************)
(* State.                                                                  *)
(***************************************************************************)
VARIABLES
    received,     \* App.received: sequence of <<x, y>>, position i at index i + 1
    dropped,      \* App.dropped
    max_latency,  \* App.max_latency
    max_seqnum,   \* App.max_seqnum
    done,         \* PingRunner.done
    child,        \* the subprocess: "running", "exited" or "killed"
    menu,         \* what this run's subprocess may write: "any" or "reports"
    pipe,         \* names of the lines written to the subprocess's stdout and
                  \* not yet read
    pc,           \* main: "loop", "update" (inside App::update), "quit" (Ok(())),
                  \* "error" (a `?` returned Err), "panicked", "aborted"
    taken,        \* calls of PingRunner::next made by the current batch (Take);
                  \* 0 outside App::update, where no Take exists
    fault,        \* where the session panicked or aborted, "none" otherwise
    terminated,   \* number of calls of App::terminate
    event,        \* the latest Event main's match handled: "none", "tick",
                  \* "q" (Key::Char('q')) or "other" (any other key)
    probe,        \* a line handed to the parser alone and what it gave
                  \* (SpecParse); NoProbe throughout a session
    \* history variables
    nwritten,     \* lines the subprocess has written
    ncalls,       \* calls of read_line that returned a line
    cur,          \* the name of the line the latest such call returned
    out,          \* the tag of what PingRunner::next made of it
    ev,           \* the latest packet App::update set out to record
    recvSet,      \* sequence numbers recorded into received
    dropSet,      \* sequence numbers recorded into dropped
    errSeen       \* read_line has returned an error

vars == <<received, dropped, max_latency, max_seqnum, done, child, menu, pipe, pc, taken,
          fault, terminated, event, probe, nwritten, ncalls, cur, out, ev,
          recvSet, dropSet, errSeen>>

\* what the chart is drawn from
store == <<received, dropped, max_latency, max_seqnum>>
\* the run's menu, the parser probe and the history variables
hist == <<menu, probe, ncalls, cur, out, ev, recvSet, dropSet, errSeen>>

NoEv == [n |-> 0, kind |-> "none", seq |-> 0, time |-> 0, lenBefore |-> 0]

NoProbe == [line |-> NoLine, res |-> Outcome("none", 0, 0, "none")]

\* App::new and PingRunner::run, after a successful spawn
InitSession ==
    /\ received = <<>>
    /\ dropped = <<>>
    /\ max_latency = InitMaxLatency
    /\ max_seqnum = InitMaxSeqnum
    /\ done = FALSE
    /\ child = "running"
    /\ menu \in {"any", "reports"}
    /\ pipe = <<>>
    /\ pc = "loop"
    /\ taken = 0
    /\ fault = "none"
    /\ terminated = 0
    /\ event = "none"
    /\ nwritten = 0
    /\ ncalls = 0
    /\ cur = "none"
    /\ out = "none"
    /\ ev = NoEv
    /\ recvSet = {}
    /\ dropSet = {}
    /\ errSeen = FALSE

Init == InitSession /\ probe = NoProbe

(***************************************************************************)
(* The subprocess.                                                         *)
(***************************************************************************)
\* the subprocess writes one line to its standard output; once the program has
\* left main nobody holds the read end of the pipe and the model stops
\* following the subprocess's output
ChildWrite(l) ==
    /\ child = "running"
    /\ pc \in {"loop", "update"}
    /\ l \in Menu(menu)
    /\ nwritten < (IF menu = "reports" THEN MaxReports ELSE MaxLines)
    /\ Len(pipe) < MaxPipe
    /\ pipe' = Append(pipe, l)
    /\ nwritten' = nwritten + 1
    /\ UNCHANGED <<store, done, child, pc, taken, fault, terminated, event, hist>>

\* the subprocess exits by itself, closing its end of the pipe
ChildExit ==
    /\ child = "running"
    /\ child' = "exited"
    /\ UNCHANGED <<store, done, pipe, pc, taken, fault, terminated, event, nwritten, hist>>

(***************************************************************************)
(* main: one pass of the loop is a draw followed by one event.  When main  *)
(* returns the process exits, which closes the read end of the pipe and    *)
(* discards what was unread in it.                                         *)
(***************************************************************************)
\* terminal.draw(..)? returns Err: main returns it
DrawError ==
    /\ pc = "loop"
    /\ pc' = "error"
    /\ pipe' = <<>>
    /\ UNCHANGED <<store, done, child, taken, fault, terminated, event, nwritten, hist>>

\* events.next()? returns Err: main returns it
EventError ==
    /\ pc = "loop"
    /\ pc' = "error"
    /\ pipe' = <<>>
    /\ UNCHANGED <<store, done, child, taken, fault, terminated, event, nwritten, hist>>

\* Event::Input(Key::Char('q')): app.terminate(); break
KeyQuit ==
    /\ pc = "loop"
    /\ pc' = "quit"
    /\ terminated' = terminated + 1
    /\ child' = IF child = "running" THEN "killed" ELSE child
    /\ pipe' = <<>>
    /\ event' = "q"
    /\ UNCHANGED <<store, done, taken, fault, nwritten, hist>>

\* a match arm that treats every key as the quit key
KeyAnyQuits ==
    /\ pc = "loop"
    /\ pc' = "quit"
    /\ terminated' = terminated + 1
    /\ child' = IF child = "running" THEN "killed" ELSE child
    /\ pipe' = <<>>
    /\ event' = "other"
    /\ UNCHANGED <<store, done, taken, fault, nwritten, hist>>

\* Event::Input of any other key: nothing
KeyOther ==
    /\ pc = "loop"
    /\ event' = "other"
    /\ UNCHANGED <<store, done, child, pipe, pc, taken, fault, terminated, nwritten, hist>>

\* Event::Tick: app.update() starts its batch
Tick ==
    /\ pc = "loop"
    /\ pc' = "update"
    /\ taken' = 0
    /\ event' = "tick"
    /\ UNCHANGED <<store, done, child, pipe, fault, terminated, nwritten, hist>>

(***************************************************************************)
(* App::update: `for packet in self.ping_runner.by_ref().take(5)`.         *)
(***************************************************************************)
\* a Take that never runs out
TakeAllowsAlways == TRUE

\* Take::next: the inner iterator is called only while fewer than five calls
\* were made
TakeAllows == taken < BatchSize

\* Take has handed out its five items: the for loop ends without a call
TakeExhausted ==
    /\ pc = "update"
    /\ taken = BatchSize
    /\ pc' = "loop"
    /\ taken' = 0
    /\ UNCHANGED <<store, done, child, pipe, fault, terminated, event, nwritten, hist>>

\* PingRunner::next with done set: None, the for loop ends
NextDone ==
    /\ pc = "update"
    /\ TakeAllows
    /\ done
    /\ pc' = "loop"
    /\ taken' = 0
    /\ UNCHANGED <<store, done, child, pipe, fault, terminated, event, nwritten, hist>>

\* read_line reads zero bytes (the pipe is empty and closed): line.is_empty(),
\* done = true, None
NextEof ==
    /\ pc = "update"
    /\ TakeAllows
    /\ ~done
    /\ pipe = <<>>
    /\ child # "running"
    /\ done' = TRUE
    /\ pc' = "loop"
    /\ taken' = 0
    /\ UNCHANGED <<store, child, pipe, fault, terminated, event, nwritten, hist>>

\* What is left in the pipe after one call of PingRunner::next that found
\* data: the call's own BufReader reads all that is available into its buffer
\* (the model's pipes are far smaller than the buffer), read_line takes the
\* first line from the buffer, and the buffer is dropped with the BufReader
\* when the call returns
PipeAfterRead(p) == <<>>

\* the history of a call that got line Head(pipe)
ReadHistory(o) ==
    /\ ncalls' = ncalls + 1
    /\ cur' = Head(pipe)
    /\ out' = o.tag
    /\ errSeen' = (errSeen \/ o.tag = "ReadError")

\* read_line returns Err: None, the for loop ends, done stays as it is
NextReadError ==
    /\ pc = "update" /\ TakeAllows /\ ~done /\ pipe # <<>>
    /\ \E o \in {ParseLine(Text[Head(pipe)])} :
        /\ o.tag = "ReadError"
        /\ ReadHistory(o)
    /\ pipe' = PipeAfterRead(pipe)
    /\ pc' = "loop"
    /\ taken' = 0
    /\ UNCHANGED <<store, done, child, menu, probe, event, fault, terminated, nwritten, ev, recvSet, dropSet>>

\* an end-of-stream line that returns None and leaves done as it is
NextEndOfStreamGoesOn ==
    /\ pc = "update" /\ TakeAllows /\ ~done /\ pipe # <<>>
    /\ \E o \in {ParseLine(Text[Head(pipe)])} :
        /\ o.tag = "EndOfStream"
        /\ ReadHistory(o)
    /\ pipe' = PipeAfterRead(pipe)
    /\ pc' = "loop"
    /\ taken' = 0
    /\ UNCHANGED <<store, done, child, menu, probe, event, fault, terminated, nwritten, ev, recvSet, dropSet>>

\* the line starts with '-': done = true, None, the for loop ends
NextEndOfStream ==
    /\ pc = "update" /\ TakeAllows /\ ~done /\ pipe # <<>>
    /\ \E o \in {ParseLine(Text[Head(pipe)])} :
        /\ o.tag = "EndOfStream"
        /\ ReadHistory(o)
    /\ pipe' = PipeAfterRead(pipe)
    /\ done' = TRUE
    /\ pc' = "loop"
    /\ taken' = 0
    /\ UNCHANGED <<store, child, menu, probe, event, fault, terminated, nwritten, ev, recvSet, dropSet>>

\* an unwrap() in the parser panics: the thread unwinds out of main
NextPanic ==
    /\ pc = "update" /\ TakeAllows /\ ~done /\ pipe # <<>>
    /\ \E o \in {ParseLine(Text[Head(pipe)])} :
        /\ o.tag = "Panic"
        /\ ReadHistory(o)
        /\ fault' = o.fault
    /\ pipe' = PipeAfterRead(pipe)
    /\ pc' = "panicked"
    /\ taken' = taken + 1
    /\ UNCHANGED <<store, done, child, menu, probe, event, terminated, nwritten, ev, recvSet, dropSet>>

\* The body of a match arm of App::update on series `series` (received or
\* dropped) for a packet with sequence number s and latency t; b is the build:
\* in a debug build `s - series.len()` panics when s < series.len(), in a
\* release build it wraps to a span no Vec can hold and the pushes go on until
\* the allocation fails.  The result is the new series and how the arm ended.
RecordInto(series, s, t, b) ==
    IF s >= Len(series)
    THEN [series |-> SetLatency(GapFill(series, s - Len(series)), s, t), end |-> "ok"]
    ELSE IF b = "debug"
    THEN [series |-> series, end |-> "panicked"]
    ELSE [series |-> GapFill(series, AllocLimit), end |-> "aborted"]

\* two arms that both write self.received
ArmWritesReceived(isDrop, series) == [received |-> series, dropped |-> dropped]

\* The series after a match arm of App::update has made `series` of the one
\* it names: the Dropped arm names self.dropped only, the Received arm
\* self.received only
ArmWrites(isDrop, series) ==
    [received |-> IF isDrop THEN received ELSE series,
     dropped  |-> IF isDrop THEN series ELSE dropped]

\* PingRunner::next returns Some(packet) and the loop body records it
NextPacket(b) ==
    /\ pc = "update" /\ TakeAllows /\ ~done /\ pipe # <<>>
    /\ \E o \in {ParseLine(Text[Head(pipe)])} :
        /\ o.tag \in {"Dropped", "Received"}
        /\ LET isDrop == o.tag = "Dropped"
               target == IF isDrop THEN dropped ELSE received
           IN
            /\ (o.seq >= Len(target)) => b = "debug"
            /\ ReadHistory(o)
            /\ ev' = [n |-> ev.n + 1, kind |-> o.tag, seq |-> o.seq, time |-> o.time,
                      lenBefore |-> Len(target)]
            /\ max_seqnum' = ObserveBound(max_seqnum, AsF64(o.seq))
            /\ max_latency' = ObserveBound(max_latency, o.time)
            /\ \E r \in {RecordInto(target, o.seq, o.time, b)} :
                /\ received' = ArmWrites(isDrop, r.series).received
                /\ dropped' = ArmWrites(isDrop, r.series).dropped
                /\ pc' = IF r.end = "ok" THEN "update" ELSE r.end
                /\ fault' = IF r.end = "ok" THEN fault ELSE "sub_overflow"
                /\ recvSet' = IF ~isDrop /\ r.end = "ok" THEN recvSet \cup {o.seq} ELSE recvSet
                /\ dropSet' = IF isDrop /\ r.end = "ok" THEN dropSet \cup {o.seq} ELSE dropSet
    /\ pipe' = PipeAfterRead(pipe)
    /\ taken' = taken + 1
    /\ UNCHANGED <<done, child, menu, probe, event, terminated, nwritten>>

Next ==
    \/ \E l \in Lines : ChildWrite(l)
    \/ ChildExit
    \/ DrawError
    \/ EventError
    \/ KeyQuit
    \/ KeyOther
    \/ Tick
    \/ TakeExhausted
    \/ NextDone
    \/ NextEof
    \/ NextReadError
    \/ NextEndOfStream
    \/ NextPanic
    \/ \E b \in {"debug", "release"} : NextPacket(b)

Spec == Init /\ [][Next]_vars

(***************************************************************************)
(* The parser alone: the lines 143-168 of PingRunner::next (with the tests *)
(* before them) applied once to a line drawn from every sequence of at     *)
(* most MaxToks tokens over Tokens.                                        *)
(***************************************************************************)
Tokens ==
    {Word("Request"), Word("ms"), Num(7), Dashes,
     WithPrefix("icmp_seq=", Num(4)), WithPrefix("icmp_seq=", Num(9)),
     WithPrefix("icmp_seq=", Word("abc")),
     WithPrefix("time=", Dec(123)), WithPrefix("time=", Num(2))}

ProbeLines == {Line(toks) : toks \in UNION {[1..n -> Tokens] : n \in 0..MaxToks}}

InitParse ==
    /\ InitSession
    /\ menu = "any"
    /\ probe \in {[line |-> l, res |-> NoProbe.res] : l \in ProbeLines}

\* the parser is applied to the line
Parse ==
    /\ probe.res.tag = "none"
    /\ probe' = [probe EXCEPT !.res = ParseLine(probe.line)]
    /\ UNCHANGED <<store, done, child, menu, pipe, pc, taken, fault, terminated, event,
                   nwritten, ncalls, cur, out, ev, recvSet, dropSet, errSeen>>

NextParse == Parse

SpecParse == InitParse /\ [][NextParse]_vars

(***************************************************************************)
(* Properties.                                                             *)
(***************************************************************************)
Alive == pc \in {"loop", "update"}
Crashed == pc \in {"panicked", "aborted"}

MaxOf(S) == CHOOSE m \in S : \A x \in S : x <= m

\* the series is as long as the largest recorded sequence number asks for,
\* and holds the sentinel wherever nothing was recorded
SeriesShape(series, recorded) ==
    /\ Len(series) = (IF recorded = {} THEN 0 ELSE MaxOf(recorded) + 1)
    /\ \A i \in 1..Len(series) : (i - 1) \notin recorded => series[i][2] = Sentinel

\* C1: after any sequence of recorded Received and Dropped events, each
\* series' length is 1 + the largest sequence number recorded into it (0 when
\* nothing was recorded), and every position that was never the target of a
\* recorded event holds the sentinel latency -1.0.  (An event that aborts the
\* session in the gap-fill loop is not recorded; see C3.)
C1_LengthAndSentinel ==
    pc # "aborted" =>
        /\ SeriesShape(received, recvSet)
        /\ SeriesShape(dropped, dropSet)

\* a recording that skipped over positions, with both series in use
C1_Witness ==
    /\ Alive
    /\ ev.kind = "Received" /\ ev.seq > ev.lenBefore
    /\ Cardinality(recvSet) >= 2
    /\ dropSet # {}

\* every element carries its own position as x-coordinate
PositionIsSeq(series) == \A i \in 1..Len(series) : series[i][1] = AsF64(i - 1)

\* C2: in every state, the element at position i of either series has
\* x-coordinate i; after recording sequence number s, position s holds (s, latency).
C2_PositionIsSeq ==
    pc # "aborted" => PositionIsSeq(received) /\ PositionIsSeq(dropped)

\* the series the latest packet was for
TargetOf(e) == IF e.kind = "Dropped" THEN dropped ELSE received

\* a readable line that neither starts with Request nor has an icmp_seq= token
HasNoSeq(l) ==
    /\ l.utf8
    /\ Len(l.toks) > 0
    /\ ~StartsWithDash(l)
    /\ ~FirstIsRequest(l.toks)
    /\ \A i \in 1..Len(l.toks) : ~StartsWith(l.toks[i], "icmp_seq=")

\* C3: recording an event whose sequence number is below the target series'
\* length does not abort the session, leaves the length unchanged and
\* overwrites the position with the new latency.  (Stated of the events that
\* come from a line carrying a sequence number.)
C3_OutOfOrderOverwrites ==
    (ev.kind # "none" /\ ~HasNoSeq(Text[cur]) /\ ev.seq < ev.lenBefore) =>
        /\ ~Crashed
        /\ Len(TargetOf(ev)) = ev.lenBefore
        /\ TargetOf(ev)[ev.seq + 1][2] = ev.time

\* C4: recording the same Received{seq, t} twice in a row gives the same
\* series and viewport bounds as recording it once.  (Stated of the events
\* that come from a line carrying a sequence number.)
C4_Idempotent ==
    [][(/\ ev'.n = ev.n + 1
        /\ ev.kind = "Received" /\ ev'.kind = "Received"
        /\ ~HasNoSeq(Text[cur]) /\ ~HasNoSeq(Text[cur'])
        /\ ev'.seq = ev.seq /\ ev'.time = ev.time)
       => (store' = store /\ ~Crashed')]_vars

\* C5: no line the subprocess wrote is skipped or lost: every line written was
\* returned by a call of PingRunner::next or is still unread in the pipe, so
\* the n-th call that gets a line gets the n-th line written (stated of the
\* running session, where the latest call produced an event).
C5_NoLineLost ==
    (Alive /\ out \in {"Received", "Dropped"}) => nwritten = ncalls + Len(pipe)

IsEndMarker(l) == l.utf8 /\ (Len(l.toks) = 0 \/ StartsWithDash(l))

\* C7: an empty line or a line beginning with '-' is end-of-stream: it gives
\* no probe event, does not abort the session, and no later line is parsed.
C7_EndMarkerEndsStream ==
    [][(ncalls' = ncalls + 1 /\ IsEndMarker(Text[cur']))
       => (done' /\ ~Crashed' /\ ev' = ev /\ store' = store)]_vars

\* C8: a line with no icmp_seq= token that does not start with Request is
\* skipped: no event is recorded for it, series and viewport stay as they
\* are, and later lines are still processed.
C8_NoSeqLineSkipped ==
    [][(ncalls' = ncalls + 1 /\ HasNoSeq(Text[cur']))
       => (ev' = ev /\ store' = store /\ ~Crashed' /\ ~done')]_vars

\* a readable line whose sequence-number or latency token is not numeric
HasBadNumber(l) ==
    /\ l.utf8
    /\ Len(l.toks) > 0
    /\ ~StartsWithDash(l)
    /\ IF FirstIsRequest(l.toks)
       THEN ~ParseUsize(l.toks[Len(l.toks)]).ok
       ELSE \E i \in 1..Len(l.toks) :
                \/ StartsWith(l.toks[i], "icmp_seq=") /\ ~ParseUsize(StripPrefix(l.toks[i])).ok
                \/ StartsWith(l.toks[i], "time=") /\ ~ParseF64(StripPrefix(l.toks[i])).ok

\* C9: a line with a non-numeric sequence-number or latency token never
\* aborts the session: it is skipped with series and viewport unchanged, and
\* the following lines are still read.
C9_BadNumberSkipped ==
    [][(ncalls' = ncalls + 1 /\ HasBadNumber(Text[cur']))
       => (ev' = ev /\ store' = store /\ ~Crashed' /\ ~done')]_vars

\* C10: once read_line has failed, the driver is finished: on no later tick
\* is the subprocess read again or a further event recorded.
C10_ReadErrorEndsStream ==
    [][errSeen => (ncalls' = ncalls /\ ev' = ev /\ store' = store)]_vars

\* C11: once PingRunner::next has returned None on the end-of-stream marker (a
\* read of zero bytes, or a line starting with '-'), the driver stays finished:
\* no later step reads a line from the subprocess, done stays set, and the two
\* series and the two viewport bounds stay as they are on every later tick.
C11_EndOfStreamIsFinal ==
    [][(done \/ out = "EndOfStream") =>
          /\ done'
          /\ ncalls' = ncalls
          /\ ev' = ev
          /\ store' = store]_vars

\* a later tick has started after a '-' line ended the stream, with a line
\* waiting unread in the pipe
C11_Witness == done /\ out = "EndOfStream" /\ pc = "update" /\ pipe # <<>>

\* C12: whenever main has been left after the subprocess was spawned (by the
\* quit key, by an error of the draw or of the event source, or by a panic or
\* an abort while a line is parsed or recorded), terminate() has been called.
C12_TerminateOnEveryExit == ~Alive => terminated >= 1

\* C13: terminate() is called at most once, and only by the step that handles
\* the quit key 'q', which also ends the loop; once that has happened nothing
\* changes any more: no tick is processed, no line is read and no event is
\* recorded; the step that handles any other key neither calls terminate() nor
\* ends the loop nor touches the store.
C13_QuitOnlyAndAbsorbing ==
    [][/\ terminated' # terminated =>
            /\ terminated = 0 /\ terminated' = 1
            /\ event' = "q" /\ pc = "loop" /\ pc' = "quit"
       /\ pc' = "quit" => terminated' = 1
       /\ (event' = "other" /\ event # "other") =>
            /\ terminated' = terminated
            /\ pc' = pc
            /\ store' = store /\ ncalls' = ncalls
       /\ pc = "quit" =>
            /\ pc' = "quit" /\ terminated' = terminated
            /\ event' = event
            /\ ncalls' = ncalls /\ ev' = ev /\ store' = store]_vars

\* the quit key was handled in a session that had recorded events:
\* terminate() was called once, the subprocess is killed and main has returned
C13_Witness ==
    /\ pc = "quit" /\ terminated = 1 /\ event = "q"
    /\ child = "killed" /\ ev.n > 0

\* the positions of the tokens of a line that start with prefix p
Prefixed(line, p) == {i \in 1..Len(line.toks) : line.toks[i].pre = p}

\* a well-formed timeout report: the first token is Request, the last one a
\* sequence number
WellFormedTimeout(line) ==
    /\ Len(line.toks) > 0
    /\ line.toks[1] = Word("Request")
    /\ line.toks[Len(line.toks)].pre = ""
    /\ line.toks[Len(line.toks)].k = "int"

\* a well-formed reply report: a line that is neither the end-of-stream marker
\* nor a timeout report and carries one token icmp_seq=N, N a sequence number,
\* and one token time=T, T a decimal number, anywhere among its tokens
WellFormedReply(line) ==
    /\ Len(line.toks) > 0
    /\ ~(line.toks[1].pre = "" /\ line.toks[1].k = "dash")
    /\ line.toks[1] # Word("Request")
    /\ Cardinality(Prefixed(line, "icmp_seq=")) = 1
    /\ Cardinality(Prefixed(line, "time=")) = 1
    /\ \A i \in Prefixed(line, "icmp_seq=") : line.toks[i].k = "int"
    /\ \A i \in Prefixed(line, "time=") : line.toks[i].k \in {"int", "dec"}

\* the number a well-formed line carries behind prefix p, latencies in tenths
Carried(line, p) ==
    LET tok == line.toks[CHOOSE i \in Prefixed(line, p) : TRUE]
    IN IF p = "time=" /\ tok.k = "int" THEN tok.v * 10 ELSE tok.v

\* C14: the parser gives, for a line whose first token is Request and whose
\* last token is a number, Dropped with that number as sequence number; and
\* for any other report line that carries a token icmp_seq=N and a token
\* time=T, Received with sequence number N and latency T, wherever the two
\* tokens stand and whatever the other tokens are.
C14_ParserOnWellFormedLines ==
    probe.res.tag # "none" =>
        /\ WellFormedTimeout(probe.line) =>
              /\ probe.res.tag = "Dropped"
              /\ probe.res.seq = probe.line.toks[Len(probe.line.toks)].v
        /\ WellFormedReply(probe.line) =>
              /\ probe.res.tag = "Received"
              /\ probe.res.seq = Carried(probe.line, "icmp_seq=")
              /\ probe.res.time = Carried(probe.line, "time=")

\* the parser has read a reply whose time token stands before its icmp_seq
\* token, with another token first
C14_Witness ==
    /\ probe.res.tag = "Received"
    /\ WellFormedReply(probe.line)
    /\ Len(probe.line.toks) = 3
    /\ \E i \in Prefixed(probe.line, "time=") :
          \E j \in Prefixed(probe.line, "icmp_seq=") : 1 < i /\ i < j

\* C15: a tick reads at most five lines and records at most five events.
\* `taken` is 0 when a tick starts its batch and goes up by one with every line
\* the batch reads and goes on from; a line is read, and an event recorded,
\* only inside a batch that has read fewer than five lines so far; and a read
\* that records nothing (the driver returned None) ends the batch at once.
C15_BoundedBatch ==
    [][/\ (pc = "loop" /\ pc' = "update") => taken' = 0
       /\ taken' <= BatchSize
       /\ ncalls' # ncalls =>
            /\ pc = "update" /\ taken < BatchSize
            /\ ncalls' = ncalls + 1
            /\ pc' = "update" => taken' = taken + 1
       /\ ev' # ev => (ncalls' # ncalls /\ ev'.n = ev.n + 1)
       /\ (pc = "update" /\ ncalls' = ncalls /\ pc' = "update") => taken' = taken
       /\ (pc = "update" /\ ncalls' # ncalls /\ ev' = ev) => pc' # "update"]_vars

\* a batch has read five lines and recorded five events in one tick
C15_Witness == pc = "update" /\ taken = BatchSize /\ ev.n = BatchSize /\ ncalls = BatchSize

\* C16: the step that processes a Received event leaves the dropped series as
\* it was, and the step that processes a Dropped event leaves the received
\* series as it was.
C16_SeriesIndependent ==
    [][ev' # ev =>
          /\ ev'.kind = "Received" => dropped' = dropped
          /\ ev'.kind = "Dropped" => received' = received]_vars

\* a Received event was recorded while the dropped series held samples
C16_Witness ==
    /\ Alive /\ received # <<>> /\ dropped # <<>>
    /\ ev.kind = "Received" /\ ev.seq \in recvSet

\* the latencies a series holds
Latencies(series) == {series[i][2] : i \in 1..Len(series)}

\* every latency of L (all of them, or the finite ones only) is strictly
\* below max_latency
LatenciesBelow(L, all) == \A t \in L : (all \/ t # F64Inf) => t < max_latency

\* the bounds never fall below their initial values, the latest processed
\* event lies strictly inside them, and so does every sequence number and
\* every latency (all of them, or the finite ones only) recorded so far
ViewportCovers(all) ==
    /\ max_seqnum >= InitMaxSeqnum
    /\ max_latency >= InitMaxLatency
    /\ (ev.n > 0 /\ ~Crashed) =>
          /\ AsF64(ev.seq) < max_seqnum
          /\ LatenciesBelow({ev.time}, all)
    /\ \A s \in recvSet \cup dropSet : AsF64(s) < max_seqnum
    /\ LatenciesBelow(Latencies(received) \cup Latencies(dropped), all)

\* C17 as stated: in every reachable state the latest processed event's
\* sequence number and latency, and every sequence number and latency recorded
\* so far, are strictly below max_seqnum and max_latency, which are at least
\* 100 and 10.
C17_ViewportContainsData == ViewportCovers(TRUE)

\* C17, amended: the same for every sequence number and for every latency that
\* is a finite number; a latency of +infinity equals the bound it sets.
C17_FiniteDataInViewport == ViewportCovers(FALSE)

\* an event with a finite latency at or above the initial bound was recorded
\* and the bound moved beyond it
C17_Witness ==
    /\ Alive /\ ev.n > 0 /\ ev.seq \in recvSet
    /\ ev.time >= InitMaxLatency /\ ev.time # F64Inf
    /\ max_latency = ev.time + Headroom

\* `later` is at least as long as `earlier` and holds the same pair at every
\* position of `earlier` other than position s
Preserves(earlier, later, s) ==
    /\ Len(later) >= Len(earlier)
    /\ \A i \in 1..Len(earlier) : i # s + 1 => later[i] = earlier[i]

\* C18: no step shortens a series, and the step that records (or sets out to
\* record) an event with sequence number s leaves the (x, y) pair of every
\* position that existed before, other than position s, as it was; a step
\* that records nothing leaves both series as they were.
C18_SeriesOnlyGrow ==
    [][IF ev' # ev
       THEN /\ Preserves(received, received', ev'.seq)
            /\ Preserves(dropped, dropped', ev'.seq)
       ELSE received' = received /\ dropped' = dropped]_vars

\* an event was recorded beyond the end of a series that held samples: the
\* series grew and the old samples are in place
C18_Witness ==
    /\ Alive /\ ev.kind = "Received" /\ ev.lenBefore > 0
    /\ Len(received) > ev.lenBefore + 1
    /\ received[ev.seq + 1][2] = ev.time

\* C19: the step that processes a Dropped event carries latency 0.0, leaves
\* max_latency as it was, never lowers max_seqnum, and, where the event is
\* recorded, stores 0.0 as the latency of its position in the dropped series.
C19_DroppedStoresZero ==
    [][(ev' # ev /\ ev'.kind = "Dropped") =>
          /\ ev'.time = 0
          /\ max_latency' = max_latency
          /\ max_seqnum' >= max_seqnum
          /\ pc' = "update" =>
                /\ Len(dropped') > ev'.seq
                /\ dropped'[ev'.seq + 1][2] = 0]_vars

\* a Dropped event was recorded: its position holds 0.0 and max_latency is
\* where an earlier Received event put it
C19_Witness ==
    /\ Alive /\ ev.kind = "Dropped" /\ ev.seq \in dropSet
    /\ dropped[ev.seq + 1][2] = 0
    /\ max_latency > InitMaxLatency

====
